---------------------------- MODULE Spec2Model ----------------------------
(***************************************************************************)
(* Model of SeleniumLibrary's WindowManager (locators/windowmanager.py).    *)
(*                                                                         *)
(* The browser driver is the only real state: the ordered list of open     *)
(* window handles, the handle that has the focus, what every window shows  *)
(* and whether the driver can run JavaScript.  WindowManager.select and    *)
(* WindowManager.get_window_infos are whole-call actions; a window that    *)
(* closes while a call is iterating its snapshot of the handle list is an  *)
(* input of the call (the event ev).                                       *)
(*                                                                         *)
(* Python strings are sequences of one-character strings, so that strip(), *)
(* lower(), partition('=') and + are computed, not assumed.                *)
(***************************************************************************)
EXTENDS Integers, Sequences, FiniteSets, TLC

VARIABLES handles, current, page, js, call

vars == <<handles, current, page, js, call>>

(* The most windows the browser has open at a time. *)
MaxWindows == 2

-----------------------------------------------------------------------------
(* Python values *)

(* None: a one-element sequence no string equals (strings are sequences of
   one-character strings). *)
None == <<"None">>

Range(s) == {s[i] : i \in 1..Len(s)}

UpperCase == <<"A","B","C","D","E","F","G","H","I","J","K","L","M","N","O","P","Q","R","S","T","U","V","W","X","Y","Z">>
LowerCase == <<"a","b","c","d","e","f","g","h","i","j","k","l","m","n","o","p","q","r","s","t","u","v","w","x","y","z">>

LowerTable ==
    [c \in {UpperCase[i] : i \in 1..Len(UpperCase)} |->
        LowerCase[CHOOSE i \in 1..Len(UpperCase) : UpperCase[i] = c]]

LowerChar(c) == IF c \in DOMAIN LowerTable THEN LowerTable[c] ELSE c

(* str.lower() *)
Lower(s) == [i \in 1..Len(s) |-> LowerChar(s[i])]

IsSpace(c) == c \in {" ", "\t"}

(* str.strip() *)
Strip(s) ==
    LET keep == {i \in 1..Len(s) : ~IsSpace(s[i])}
    IN  IF keep = {} THEN <<>>
        ELSE LET first == CHOOSE i \in keep : \A j \in keep : i <= j
                 last  == CHOOSE i \in keep : \A j \in keep : j <= i
             IN  SubSeq(s, first, last)

(* str.partition(sep) for a one-character separator: (head, sep, tail), or
   (s, '', '') when sep does not occur. *)
Partition(s, sep) ==
    LET at == {i \in 1..Len(s) : s[i] = sep}
    IN  IF at = {} THEN <<s, <<>>, <<>> >>
        ELSE LET k == CHOOSE i \in at : \A j \in at : i <= j
             IN  <<SubSeq(s, 1, k - 1), <<sep>>, SubSeq(s, k + 1, Len(s))>>

(* sub in s *)
Contains(s, sub) ==
    \E i \in 0..(Len(s) - Len(sub)) : SubSeq(s, i + 1, i + Len(sub)) = sub

-----------------------------------------------------------------------------
(* Exceptions *)

NoExc == [type |-> "", msg |-> <<>>]

Raised(r) == r.type # ""

NoSuchWindowException == [type |-> "NoSuchWindowException", msg |-> <<>>]

WebDriverException == [type |-> "WebDriverException", msg |-> <<>>]

(* NoSuchWindowException is a subclass of WebDriverException. *)
IsWebDriverException(e) == e.type \in {"WebDriverException", "NoSuchWindowException"}

ValueError(msg) == [type |-> "ValueError", msg |-> msg]

AssertionError(msg) == [type |-> "AssertionError", msg |-> msg]

IndexError == [type |-> "IndexError", msg |-> <<"l","i","s","t"," ","i","n","d","e","x"," ","o","u","t"," ","o","f"," ","r","a","n","g","e">>]

-----------------------------------------------------------------------------
(* The driver, as the calls WindowManager makes on it.  d is the driver
   during a call: [handles, current, log]; log records every driver call. *)

Logged(d, name, arg) ==
    [d EXCEPT !.log = Append(@, [call |-> name, arg |-> arg])]

(* A window closes: it leaves the handle list, and the focus is lost when it
   had the focus. *)
CloseIn(d, h) ==
    [d EXCEPT !.handles = SelectSeq(@, LAMBDA x : x # h),
              !.current = IF @ = h THEN None ELSE @]

(* browser.window_handles *)
WindowHandles(d) ==
    [d |-> Logged(d, "window_handles", <<>>), exc |-> NoExc, val |-> d.handles]

(* browser.current_window_handle *)
CurrentWindowHandle(d) ==
    [d   |-> Logged(d, "current_window_handle", <<>>),
     exc |-> IF d.current = None THEN NoSuchWindowException ELSE NoExc,
     val |-> d.current]

(* browser.switch_to.window(handle) *)
SwitchToWindow(d, h) ==
    IF h \in Range(d.handles)
    THEN [d   |-> [Logged(d, "switch_to.window", h) EXCEPT !.current = h],
          exc |-> NoExc]
    ELSE [d   |-> Logged(d, "switch_to.window", h),
          exc |-> NoSuchWindowException]

(* browser.execute_script("return [ window.id, window.name ];") *)
ExecuteScript(d) ==
    [d   |-> Logged(d, "execute_script", <<>>),
     exc |-> IF d.current = None THEN NoSuchWindowException
             ELSE IF ~js THEN WebDriverException
             ELSE NoExc,
     val |-> IF d.current # None /\ js
             THEN <<page[d.current].id, page[d.current].name>>
             ELSE <<None, None>>]

(* browser.title *)
Title(d) ==
    [d   |-> Logged(d, "title", <<>>),
     exc |-> IF d.current = None THEN NoSuchWindowException ELSE NoExc,
     val |-> IF d.current = None THEN None ELSE page[d.current].title]

(* browser.current_url *)
CurrentUrl(d) ==
    [d   |-> Logged(d, "current_url", <<>>),
     exc |-> IF d.current = None THEN NoSuchWindowException ELSE NoExc,
     val |-> IF d.current = None THEN None ELSE page[d.current].url]

-----------------------------------------------------------------------------
(* A window closing while a call iterates its snapshot.  ev.at = 0: nothing
   closes.  Otherwise window ev.h closes in iteration ev.at of the loop:
   before the switch (phase "switch") or between the switch and the reading
   of the window's info (phase "read"). *)

NoEvent == [at |-> 0, phase |-> "", h |-> None]

Happens(d, ev, i, phase) ==
    IF ev.at = i /\ ev.phase = phase THEN CloseIn(d, ev.h) ELSE d

-----------------------------------------------------------------------------
(* windowmanager.py *)

Undefined == <<"u","n","d","e","f","i","n","e","d">>

(* WindowInfo = namedtuple('WindowInfo', 'handle, id, name, title, url');
   Item(info, k) is info[k] of Python (0-based). *)
WindowInfo(handle, id, name, title, url) == <<handle, id, name, title, url>>

Item(info, k) == info[k + 1]

(* x or 'undefined' *)
OrUndefined(x) == IF x = None \/ x = <<>> THEN Undefined ELSE x

(* _get_current_window_info without the except clause: the exception of
   execute_script leaves it. *)
get_current_window_info_no_except(d) ==
    LET s    == ExecuteScript(d)
        c    == CurrentWindowHandle(s.d)
        t    == Title(c.d)
        u    == CurrentUrl(t.d)
    IN  IF Raised(s.exc) THEN [d |-> s.d, exc |-> s.exc, val |-> <<>>]
        ELSE IF Raised(c.exc) THEN [d |-> c.d, exc |-> c.exc, val |-> <<>>]
        ELSE IF Raised(t.exc) THEN [d |-> t.d, exc |-> t.exc, val |-> <<>>]
        ELSE IF Raised(u.exc) THEN [d |-> u.d, exc |-> u.exc, val |-> <<>>]
        ELSE [d   |-> u.d,
              exc |-> NoExc,
              val |-> WindowInfo(c.val,
                                 IF s.val[1] # None THEN s.val[1] ELSE Undefined,
                                 OrUndefined(s.val[2]),
                                 OrUndefined(t.val),
                                 OrUndefined(u.val))]

(* WindowManager._get_current_window_info *)
get_current_window_info(d) ==
    LET s    == ExecuteScript(d)
        id   == IF IsWebDriverException(s.exc) THEN None ELSE s.val[1]
        name == IF IsWebDriverException(s.exc) THEN None ELSE s.val[2]
        c    == CurrentWindowHandle(s.d)
        t    == Title(c.d)
        u    == CurrentUrl(t.d)
    IN  IF Raised(c.exc) THEN [d |-> c.d, exc |-> c.exc, val |-> <<>>]
        ELSE IF Raised(t.exc) THEN [d |-> t.d, exc |-> t.exc, val |-> <<>>]
        ELSE IF Raised(u.exc) THEN [d |-> u.d, exc |-> u.exc, val |-> <<>>]
        ELSE [d   |-> u.d,
              exc |-> NoExc,
              val |-> WindowInfo(c.val,
                                 IF id # None THEN id ELSE Undefined,
                                 OrUndefined(name),
                                 OrUndefined(t.val),
                                 OrUndefined(u.val))]

(* The matcher lambdas of _select_by_title, _select_by_name, _select_by_url:
   window_info[k].strip().lower() == criteria.lower() *)
matcher(window_info, k, criteria) ==
    Lower(Strip(Item(window_info, k))) = Lower(criteria)

(* The loop of _select_matching without the return at a match: the loop goes
   on to the remaining handles. *)
RECURSIVE select_matching_loop_keeps_scanning(_, _, _, _, _, _)
select_matching_loop_keeps_scanning(d, snapshot, i, k, criteria, ev) ==
    IF i > Len(snapshot) THEN [d |-> d, exc |-> NoExc, found |-> FALSE]
    ELSE LET s == SwitchToWindow(Happens(d, ev, i, "switch"), snapshot[i])
             g == get_current_window_info(Happens(s.d, ev, i, "read"))
             r == select_matching_loop_keeps_scanning(
                     g.d, snapshot, i + 1, k, criteria, ev)
         IN  IF Raised(s.exc) THEN [d |-> s.d, exc |-> s.exc, found |-> FALSE]
             ELSE IF Raised(g.exc) THEN [d |-> g.d, exc |-> g.exc, found |-> FALSE]
             ELSE IF matcher(g.val, k, criteria) /\ ~Raised(r.exc)
                  THEN [r EXCEPT !.found = TRUE]
             ELSE r

(* The for loop of WindowManager._select_matching, from the i-th handle of
   the snapshot on. *)
RECURSIVE select_matching_loop(_, _, _, _, _, _)
select_matching_loop(d, snapshot, i, k, criteria, ev) ==
    IF i > Len(snapshot) THEN [d |-> d, exc |-> NoExc, found |-> FALSE]
    ELSE LET s == SwitchToWindow(Happens(d, ev, i, "switch"), snapshot[i])
             g == get_current_window_info(Happens(s.d, ev, i, "read"))
         IN  IF Raised(s.exc) THEN [d |-> s.d, exc |-> s.exc, found |-> FALSE]
             ELSE IF Raised(g.exc) THEN [d |-> g.d, exc |-> g.exc, found |-> FALSE]
             ELSE IF matcher(g.val, k, criteria)
                  THEN [d |-> g.d, exc |-> NoExc, found |-> TRUE]
             ELSE select_matching_loop(g.d, snapshot, i + 1, k, criteria, ev)

(* What follows a loop that found nothing: the starting window gets the
   focus again when it was known, and the error is raised. *)
restore_and_raise(d, starting_handle, error) ==
    IF starting_handle # None
    THEN LET s == SwitchToWindow(d, starting_handle)
         IN  [d |-> s.d, exc |-> IF Raised(s.exc) THEN s.exc ELSE error]
    ELSE [d |-> d, exc |-> error]

(* WindowManager._select_matching; the matcher is given by k and criteria. *)
select_matching(d, k, criteria, error, ev) ==
    LET c == CurrentWindowHandle(d)
        starting_handle == IF c.exc = NoSuchWindowException THEN None ELSE c.val
        w == WindowHandles(c.d)
        l == select_matching_loop(w.d, w.val, 1, k, criteria, ev)
    IN  IF Raised(l.exc) THEN [d |-> l.d, exc |-> l.exc]
        ELSE IF l.found THEN [d |-> l.d, exc |-> NoExc]
        ELSE restore_and_raise(l.d, starting_handle, ValueError(error))

(* _select_by_title with the matcher reading window_info[2], the name. *)
select_by_title_reads_name(d, criteria, ev) ==
    select_matching(d, 2, criteria,
        <<"U","n","a","b","l","e"," ","t","o"," ","l","o","c","a","t","e"," ","w","i","n","d","o","w"," ","w","i","t","h"," ","t","i","t","l","e"," ","'">> \o criteria \o <<"'">>, ev)

(* WindowManager._select_by_title *)
select_by_title(d, criteria, ev) ==
    select_matching(d, 3, criteria,
        <<"U","n","a","b","l","e"," ","t","o"," ","l","o","c","a","t","e"," ","w","i","n","d","o","w"," ","w","i","t","h"," ","t","i","t","l","e"," ","'">> \o criteria \o <<"'">>, ev)

(* WindowManager._select_by_name *)
select_by_name(d, criteria, ev) ==
    select_matching(d, 2, criteria,
        <<"U","n","a","b","l","e"," ","t","o"," ","l","o","c","a","t","e"," ","w","i","n","d","o","w"," ","w","i","t","h"," ","n","a","m","e"," ","'">> \o criteria \o <<"'">>, ev)

(* WindowManager._select_by_url *)
select_by_url(d, criteria, ev) ==
    select_matching(d, 4, criteria,
        <<"U","n","a","b","l","e"," ","t","o"," ","l","o","c","a","t","e"," ","w","i","n","d","o","w"," ","w","i","t","h"," ","U","R","L"," ","'">> \o criteria \o <<"'">>, ev)

(* The loop of _select_by_default reading [2:5] of the window info: name,
   title and URL. *)
RECURSIVE select_by_default_loop_matches_url(_, _, _, _, _)
select_by_default_loop_matches_url(d, snapshot, i, criteria, ev) ==
    IF i > Len(snapshot) THEN [d |-> d, exc |-> NoExc, found |-> FALSE]
    ELSE LET handle == snapshot[i]
             s == SwitchToWindow(Happens(d, ev, i, "switch"), handle)
             g == get_current_window_info(Happens(s.d, ev, i, "read"))
         IN  IF Raised(s.exc) THEN [d |-> s.d, exc |-> s.exc, found |-> FALSE]
             ELSE IF criteria = handle
                  THEN [d |-> s.d, exc |-> NoExc, found |-> TRUE]
             ELSE IF Raised(g.exc) THEN [d |-> g.d, exc |-> g.exc, found |-> FALSE]
             ELSE IF \E j \in 2..4 :
                        Lower(Strip(Item(g.val, j))) = Lower(criteria)
                  THEN [d |-> g.d, exc |-> NoExc, found |-> TRUE]
             ELSE select_by_default_loop_matches_url(
                     g.d, snapshot, i + 1, criteria, ev)

(* The for loop of WindowManager._select_by_default. *)
RECURSIVE select_by_default_loop(_, _, _, _, _)
select_by_default_loop(d, snapshot, i, criteria, ev) ==
    IF i > Len(snapshot) THEN [d |-> d, exc |-> NoExc, found |-> FALSE]
    ELSE LET handle == snapshot[i]
             s == SwitchToWindow(Happens(d, ev, i, "switch"), handle)
             g == get_current_window_info(Happens(s.d, ev, i, "read"))
         IN  IF Raised(s.exc) THEN [d |-> s.d, exc |-> s.exc, found |-> FALSE]
             ELSE IF criteria = handle
                  THEN [d |-> s.d, exc |-> NoExc, found |-> TRUE]
             ELSE IF Raised(g.exc) THEN [d |-> g.d, exc |-> g.exc, found |-> FALSE]
             ELSE IF \E j \in 2..3 :
                        Lower(Strip(Item(g.val, j))) = Lower(criteria)
                  THEN [d |-> g.d, exc |-> NoExc, found |-> TRUE]
             ELSE select_by_default_loop(g.d, snapshot, i + 1, criteria, ev)

(* WindowManager._select_by_default *)
select_by_default(d, criteria, ev) ==
    IF criteria = None \/ Len(criteria) = 0 \/ Lower(criteria) = <<"n","u","l","l">>
    THEN LET w == WindowHandles(d)
         IN  IF Len(w.val) = 0 THEN [d |-> w.d, exc |-> IndexError]
             ELSE LET s == SwitchToWindow(w.d, w.val[1])
                  IN  [d |-> s.d, exc |-> s.exc]
    ELSE LET c == CurrentWindowHandle(d)
             starting_handle == IF c.exc = NoSuchWindowException THEN None ELSE c.val
             w == WindowHandles(c.d)
             l == select_by_default_loop(w.d, w.val, 1, criteria, ev)
         IN  IF Raised(l.exc) THEN [d |-> l.d, exc |-> l.exc]
             ELSE IF l.found THEN [d |-> l.d, exc |-> NoExc]
             ELSE restore_and_raise(l.d, starting_handle, ValueError(
                    <<"U","n","a","b","l","e"," ","t","o"," ","l","o","c","a","t","e"," ","w","i","n","d","o","w"," ","w","i","t","h"," ","h","a","n","d","l","e"," ","o","r"," ","n","a","m","e"," ","o","r"," ","t","i","t","l","e"," ","o","r"," ","U","R","L"," ","'">>
                    \o criteria \o <<"'">>))

NoNewWindowMessage == <<"N","o"," ","n","e","w"," ","w","i","n","d","o","w"," ","a","t"," ","l","a","s","t"," ","i","n","d","e","x","."," ","P","l","e","a","s","e"," ","u","s","e"," ","'","@","{","e","x","}","="," ","|"," ","L","i","s","t"," ","W","i","n","d","o","w","s","'"," ","+"," ","n","e","w"," ","w","i","n","d","o","w"," ","t","r","i","g","g","e","r"," ","+"," ","'","S","e","l","e","c","t"," ","W","i","n","d","o","w"," ","|"," ","$","{","e","x","}","'"," ","t","o"," ","f","i","n","d"," ","i","t",".">>

(* _select_by_last_index comparing the focus with handles[0]. *)
select_by_last_index_compares_first(d) ==
    LET w == WindowHandles(d)
        c == CurrentWindowHandle(w.d)
    IN  IF Len(w.val) = 0
        THEN [d |-> w.d, exc |-> AssertionError(<<"N","o"," ","w","i","n","d","o","w"," ","f","o","u","n","d">>)]
        ELSE IF c.exc = NoSuchWindowException
        THEN [d |-> c.d, exc |-> AssertionError(
                <<"C","u","r","r","e","n","t","l","y"," ","n","o"," ","f","o","c","u","s"," ","w","i","n","d","o","w","."," ","w","h","e","r","e"," ","a","r","e"," ","y","o","u"," ","m","a","k","i","n","g"," ","a"," ","p","o","p","u","p"," ","w","i","n","d","o","w","?">>)]
        ELSE IF w.val[1] = c.val
        THEN [d |-> c.d, exc |-> AssertionError(NoNewWindowMessage)]
        ELSE LET s == SwitchToWindow(c.d, w.val[Len(w.val)])
             IN  [d |-> s.d, exc |-> s.exc]

(* _select_by_last_index switching to handles[-2] (handles[-1] when there is
   one handle). *)
select_by_last_index_switches_before_last(d) ==
    LET w == WindowHandles(d)
        c == CurrentWindowHandle(w.d)
    IN  IF Len(w.val) = 0
        THEN [d |-> w.d, exc |-> AssertionError(<<"N","o"," ","w","i","n","d","o","w"," ","f","o","u","n","d">>)]
        ELSE IF c.exc = NoSuchWindowException
        THEN [d |-> c.d, exc |-> AssertionError(
                <<"C","u","r","r","e","n","t","l","y"," ","n","o"," ","f","o","c","u","s"," ","w","i","n","d","o","w","."," ","w","h","e","r","e"," ","a","r","e"," ","y","o","u"," ","m","a","k","i","n","g"," ","a"," ","p","o","p","u","p"," ","w","i","n","d","o","w","?">>)]
        ELSE IF w.val[Len(w.val)] = c.val
        THEN [d |-> c.d, exc |-> AssertionError(NoNewWindowMessage)]
        ELSE LET s == SwitchToWindow(c.d, w.val[IF Len(w.val) > 1 THEN Len(w.val) - 1 ELSE 1])
             IN  [d |-> s.d, exc |-> s.exc]

(* _select_by_last_index with the handlers of IndexError and
   NoSuchWindowException exchanged. *)
select_by_last_index_swaps_handlers(d) ==
    LET w == WindowHandles(d)
        c == CurrentWindowHandle(w.d)
    IN  IF Len(w.val) = 0
        THEN [d |-> w.d, exc |-> AssertionError(
                <<"C","u","r","r","e","n","t","l","y"," ","n","o"," ","f","o","c","u","s"," ","w","i","n","d","o","w","."," ","w","h","e","r","e"," ","a","r","e"," ","y","o","u"," ","m","a","k","i","n","g"," ","a"," ","p","o","p","u","p"," ","w","i","n","d","o","w","?">>)]
        ELSE IF c.exc = NoSuchWindowException
        THEN [d |-> c.d, exc |-> AssertionError(<<"N","o"," ","w","i","n","d","o","w"," ","f","o","u","n","d">>)]
        ELSE IF w.val[Len(w.val)] = c.val
        THEN [d |-> c.d, exc |-> AssertionError(NoNewWindowMessage)]
        ELSE LET s == SwitchToWindow(c.d, w.val[Len(w.val)])
             IN  [d |-> s.d, exc |-> s.exc]

(* WindowManager._select_by_last_index *)
select_by_last_index(d) ==
    LET w == WindowHandles(d)
        c == CurrentWindowHandle(w.d)
    IN  IF Len(w.val) = 0
        THEN [d |-> w.d, exc |-> AssertionError(<<"N","o"," ","w","i","n","d","o","w"," ","f","o","u","n","d">>)]
        ELSE IF c.exc = NoSuchWindowException
        THEN [d |-> c.d, exc |-> AssertionError(
                <<"C","u","r","r","e","n","t","l","y"," ","n","o"," ","f","o","c","u","s"," ","w","i","n","d","o","w","."," ","w","h","e","r","e"," ","a","r","e"," ","y","o","u"," ","m","a","k","i","n","g"," ","a"," ","p","o","p","u","p"," ","w","i","n","d","o","w","?">>)]
        ELSE IF w.val[Len(w.val)] = c.val
        THEN [d |-> c.d, exc |-> AssertionError(NoNewWindowMessage)]
        ELSE LET s == SwitchToWindow(c.d, w.val[Len(w.val)])
             IN  [d |-> s.d, exc |-> s.exc]

(* _select_by_excludes without the return after the switch: the loop goes on
   to every handle that is not excluded. *)
select_by_excludes_no_return(d, excludes) ==
    LET w == WindowHandles(d)
        free == {i \in 1..Len(w.val) : w.val[i] \notin excludes}
    IN  IF free = {} THEN [d |-> w.d, exc |-> ValueError(<<"U","n","a","b","l","e"," ","t","o"," ","l","o","c","a","t","e"," ","n","e","w"," ","w","i","n","d","o","w">>)]
        ELSE LET last == CHOOSE i \in free : \A j \in free : j <= i
                 s == SwitchToWindow(w.d, w.val[last])
             IN  [d |-> s.d, exc |-> ValueError(<<"U","n","a","b","l","e"," ","t","o"," ","l","o","c","a","t","e"," ","n","e","w"," ","w","i","n","d","o","w">>)]

(* _select_by_excludes switching to the first handle of the list before it
   tests the handles. *)
select_by_excludes_switches_first(d, excludes) ==
    LET w == WindowHandles(d)
        f == IF Len(w.val) > 0 THEN SwitchToWindow(w.d, w.val[1]).d ELSE w.d
        free == {i \in 1..Len(w.val) : w.val[i] \notin excludes}
    IN  IF free = {} THEN [d |-> f, exc |-> ValueError(<<"U","n","a","b","l","e"," ","t","o"," ","l","o","c","a","t","e"," ","n","e","w"," ","w","i","n","d","o","w">>)]
        ELSE LET first == CHOOSE i \in free : \A j \in free : i <= j
                 s == SwitchToWindow(f, w.val[first])
             IN  [d |-> s.d, exc |-> s.exc]

(* WindowManager._select_by_excludes; excludes is the set of the list's
   items (the code only asks "handle not in excludes"). *)
select_by_excludes(d, excludes) ==
    LET w == WindowHandles(d)
        free == {i \in 1..Len(w.val) : w.val[i] \notin excludes}
    IN  IF free = {} THEN [d |-> w.d, exc |-> ValueError(<<"U","n","a","b","l","e"," ","t","o"," ","l","o","c","a","t","e"," ","n","e","w"," ","w","i","n","d","o","w">>)]
        ELSE LET first == CHOOSE i \in free : \A j \in free : i <= j
                 s == SwitchToWindow(w.d, w.val[first])
             IN  [d |-> s.d, exc |-> s.exc]

(* _parse_locator with locator.rpartition('='): the split is at the last
   '='. *)
parse_locator_splits_at_last(locator) ==
    LET at == IF locator = None THEN {}
              ELSE {i \in 1..Len(locator) : locator[i] = "="}
        k  == CHOOSE i \in at : \A j \in at : j <= i
        prefix == IF at # {} THEN Lower(Strip(SubSeq(locator, 1, k - 1))) ELSE None
        crit   == IF at # {} THEN Strip(SubSeq(locator, k + 1, Len(locator)))
                  ELSE locator
        criteria == IF (prefix = None \/ prefix = <<"n","a","m","e">>)
                       /\ (crit = None \/ Lower(crit) = <<"m","a","i","n">>)
                    THEN <<>> ELSE crit
    IN  <<prefix, criteria>>

(* _parse_locator normalizing 'main' only when there is no prefix. *)
parse_locator_main_without_prefix(locator) ==
    LET locator_parts == IF locator # None THEN Partition(locator, "=") ELSE <<>>
        split  == locator # None /\ Len(locator) > 0 /\ Len(locator_parts[2]) > 0
        prefix == IF split THEN Lower(Strip(locator_parts[1])) ELSE None
        crit   == IF split THEN Strip(locator_parts[3]) ELSE locator
        criteria == IF prefix = None /\ (crit = None \/ Lower(crit) = <<"m","a","i","n">>)
                    THEN <<>> ELSE crit
    IN  <<prefix, criteria>>

(* WindowManager._parse_locator; locator is None or a string. *)
parse_locator(locator) ==
    LET locator_parts == IF locator # None THEN Partition(locator, "=") ELSE <<>>
        split  == locator # None /\ Len(locator) > 0 /\ Len(locator_parts[2]) > 0
        prefix == IF split THEN Lower(Strip(locator_parts[1])) ELSE None
        crit   == IF split THEN Strip(locator_parts[3]) ELSE locator
        criteria == IF (prefix = None \/ prefix = <<"n","a","m","e">>)
                       /\ (crit = None \/ Lower(crit) = <<"m","a","i","n">>)
                    THEN <<>> ELSE crit
    IN  <<prefix, criteria>>

(* The keys of self._strategies that are strings (WindowManager.__init__);
   the key None maps to _select_by_default. *)
StrategyPrefixes == {<<"t","i","t","l","e">>, <<"n","a","m","e">>, <<"u","r","l">>}

(* The dispatch of select on the parsed locator, with
   self._strategies.get(prefix, self._select_by_default): an unknown prefix
   falls back to the default strategy. *)
select_strategy_defaults(d, locator, ev) ==
    LET parsed   == parse_locator(locator.val)
        prefix   == parsed[1]
        criteria == parsed[2]
    IN  IF prefix = <<"t","i","t","l","e">> THEN select_by_title(d, criteria, ev)
        ELSE IF prefix = <<"n","a","m","e">> THEN select_by_name(d, criteria, ev)
        ELSE IF prefix = <<"u","r","l">> THEN select_by_url(d, criteria, ev)
        ELSE select_by_default(d, criteria, ev)

(* The dispatch of select on the parsed locator (the lines after the special
   tokens). *)
select_strategy(d, locator, ev) ==
    LET parsed   == parse_locator(locator.val)
        prefix   == parsed[1]
        criteria == parsed[2]
    IN  IF prefix = None THEN select_by_default(d, criteria, ev)
        ELSE IF prefix = <<"t","i","t","l","e">> THEN select_by_title(d, criteria, ev)
        ELSE IF prefix = <<"n","a","m","e">> THEN select_by_name(d, criteria, ev)
        ELSE IF prefix = <<"u","r","l">> THEN select_by_url(d, criteria, ev)
        ELSE [d |-> d, exc |-> ValueError(
               <<"W","i","n","d","o","w"," ","l","o","c","a","t","o","r"," ","w","i","t","h"," ","p","r","e","f","i","x"," ","'">> \o prefix \o <<"'"," ","i","s"," ","n","o","t"," ","s","u","p","p","o","r","t","e","d">>)]

(* select comparing the locator with 'self' and 'current' as written,
   without lower(). *)
select_self_case_sensitive(d, locator, ev) ==
    IF locator.type = "list" THEN select_by_excludes(d, locator.val)
    ELSE IF locator.type = "str" /\ locator.val \in {<<"s","e","l","f">>, <<"c","u","r","r","e","n","t">>}
    THEN [d |-> d, exc |-> NoExc]
    ELSE IF locator.type = "str" /\ Lower(locator.val) \in {<<"n","e","w">>, <<"p","o","p","u","p">>}
    THEN select_by_last_index(d)
    ELSE select_strategy(d, locator, ev)

(* WindowManager.select; locator is [type, val]: type "NoneType" (val None),
   "str" (val a string) or "list" (val the set of the list's items). *)
select(d, locator, ev) ==
    IF locator.type = "list" THEN select_by_excludes(d, locator.val)
    ELSE IF locator.type = "str" /\ Lower(locator.val) \in {<<"s","e","l","f">>, <<"c","u","r","r","e","n","t">>}
    THEN [d |-> d, exc |-> NoExc]
    ELSE IF locator.type = "str" /\ Lower(locator.val) \in {<<"n","e","w">>, <<"p","o","p","u","p">>}
    THEN select_by_last_index(d)
    ELSE select_strategy(d, locator, ev)

(* The loop of get_window_infos with infos.insert(0, ...) for
   infos.append(...). *)
RECURSIVE get_window_infos_loop_inserts_first(_, _, _, _, _)
get_window_infos_loop_inserts_first(d, snapshot, i, infos, ev) ==
    IF i > Len(snapshot) THEN [d |-> d, exc |-> NoExc, infos |-> infos]
    ELSE LET s == SwitchToWindow(Happens(d, ev, i, "switch"), snapshot[i])
             g == get_current_window_info(Happens(s.d, ev, i, "read"))
         IN  IF Raised(s.exc) THEN [d |-> s.d, exc |-> s.exc, infos |-> infos]
             ELSE IF Raised(g.exc) THEN [d |-> g.d, exc |-> g.exc, infos |-> infos]
             ELSE get_window_infos_loop_inserts_first(
                     g.d, snapshot, i + 1, <<g.val>> \o infos, ev)

(* The for loop of WindowManager.get_window_infos. *)
RECURSIVE get_window_infos_loop(_, _, _, _, _)
get_window_infos_loop(d, snapshot, i, infos, ev) ==
    IF i > Len(snapshot) THEN [d |-> d, exc |-> NoExc, infos |-> infos]
    ELSE LET s == SwitchToWindow(Happens(d, ev, i, "switch"), snapshot[i])
             g == get_current_window_info(Happens(s.d, ev, i, "read"))
         IN  IF Raised(s.exc) THEN [d |-> s.d, exc |-> s.exc, infos |-> infos]
             ELSE IF Raised(g.exc) THEN [d |-> g.d, exc |-> g.exc, infos |-> infos]
             ELSE get_window_infos_loop(g.d, snapshot, i + 1, Append(infos, g.val), ev)

(* get_window_infos without try/finally: the starting window gets the focus
   again only when the loop ran to its end. *)
get_window_infos_no_finally(d, ev) ==
    LET c == CurrentWindowHandle(d)
        starting_handle == IF c.exc = NoSuchWindowException THEN None ELSE c.val
        w == WindowHandles(c.d)
        l == get_window_infos_loop(w.d, w.val, 1, <<>>, ev)
        f == IF starting_handle # None /\ ~Raised(l.exc)
             THEN SwitchToWindow(l.d, starting_handle)
             ELSE [d |-> l.d, exc |-> NoExc]
    IN  [d   |-> f.d,
         exc |-> IF Raised(f.exc) THEN f.exc ELSE l.exc,
         ret |-> IF Raised(f.exc) \/ Raised(l.exc) THEN <<>> ELSE l.infos]

(* WindowManager.get_window_infos: the finally clause switches back when the
   starting handle was known; an exception of that switch replaces the
   loop's. *)
get_window_infos(d, ev) ==
    LET c == CurrentWindowHandle(d)
        starting_handle == IF c.exc = NoSuchWindowException THEN None ELSE c.val
        w == WindowHandles(c.d)
        l == get_window_infos_loop(w.d, w.val, 1, <<>>, ev)
        f == IF starting_handle # None THEN SwitchToWindow(l.d, starting_handle)
             ELSE [d |-> l.d, exc |-> NoExc]
    IN  [d   |-> f.d,
         exc |-> IF Raised(f.exc) THEN f.exc ELSE l.exc,
         ret |-> IF Raised(f.exc) \/ Raised(l.exc) THEN <<>> ELSE l.infos]
-----------------------------------------------------------------------------
(* The browser session and the calls made on WindowManager *)

Digits == <<"1","2","3","4","5","6","7","8","9">>

(* The handles the driver gives its windows: 'w1', 'w2', ... *)
HandlePool == {<<"w", Digits[i]>> : i \in 1..MaxWindows}

(* What a window can show: window.id, window.name, the document's title and
   its URL. *)
Pages ==
    { [id |-> None,  name |-> <<>>,     title |-> <<"H","o","m","e">>,   url |-> <<"u","/","a">>],
      [id |-> None,  name |-> <<"p","o","p">>,  title |-> <<"L","o","g","i","n">>,  url |-> <<"u","/","b">>],
      [id |-> <<"x">>,  name |-> <<"P","o","p"," ">>, title |-> <<" ","h","o","m","e"," ">>, url |-> <<"u","/","a">>],
      [id |-> None,  name |-> <<"H","o","m","e">>, title |-> <<>>,       url |-> <<"U","/","B">>] }

Str(s) == [type |-> "str", val |-> s]

PyNone == [type |-> "NoneType", val |-> None]

List(items) == [type |-> "list", val |-> items]

(* 'title=' + the exact title of a page *)
ExactTitleLocators == {<<"t","i","t","l","e","=">> \o p.title : p \in Pages}

StringLocators ==
    ExactTitleLocators \cup
    { <<"T","i","t","l","e"," ","="," ","L","O","G","I","N">>, <<"t","i","t","l","e","=","m","i","s","s","i","n","g">>, <<"t","i","t","l","e","=","u","n","d","e","f","i","n","e","d">>,
      <<"n","a","m","e","=","p","o","p">>, <<"n","a","m","e","=","m","i","s","s","i","n","g">>, <<"n","a","m","e","=","m","a","i","n">>, <<"N","A","M","E","=","u","n","d","e","f","i","n","e","d">>,
      <<"u","r","l","=","U","/","B">>, <<"u","r","l","=","m","i","s","s","i","n","g">>,
      <<"f","o","o","=","b","a","r">>, <<" ","F","O","O"," ","=","x">>, <<"=","x">>,
      <<"H","o","m","e">>, <<"p","o","p">>, <<"m","i","s","s","i","n","g">>, <<"u","/","b">>, <<"w","1">>, <<"W","1">>,
      <<>>, <<"m","a","i","n">>, <<"M","A","I","N">>, <<"n","u","l","l">>, <<"N","u","l","l">>,
      <<"s","e","l","f">>, <<"S","E","L","F">>, <<"c","u","r","r","e","n","t">>, <<"C","u","r","r","e","n","t">>,
      <<"n","e","w">>, <<"N","E","W">>, <<"p","o","p","u","p">>, <<"P","o","p","U","p">> }

Locators ==
    {Str(s) : s \in StringLocators} \cup {PyNone}
    \cup {List(x) : x \in SUBSET HandlePool}

(* The locators select answers with a scan of the windows: a title, name or
   url prefix, or no prefix with criteria that are not empty or 'null'. *)
IsScan(locator) ==
    /\ locator.type = "str"
    /\ Lower(locator.val) \notin {<<"s","e","l","f">>, <<"c","u","r","r","e","n","t">>, <<"n","e","w">>, <<"p","o","p","u","p">>}
    /\ LET parsed == parse_locator(locator.val)
       IN  \/ parsed[1] \in StrategyPrefixes
           \/ parsed[1] = None /\ parsed[2] # <<>> /\ Lower(parsed[2]) # <<"n","u","l","l">>

ScanLocators == {locator \in Locators : IsScan(locator)}

(* What can close during a call that scans the windows in hs while cur has
   the focus: the window the loop is about to switch to, the window it has
   just switched to, or the window that had the focus when the call began. *)
Events(hs, cur) ==
    {NoEvent}
    \cup UNION {{[at |-> i, phase |-> "switch", h |-> h] :
                    h \in {hs[i], cur} \cap Range(hs)} : i \in 1..Len(hs)}
    \cup {[at |-> i, phase |-> "read", h |-> hs[i]] : i \in 1..Len(hs)}

NoCall ==
    [op |-> "", locator |-> PyNone, ev |-> NoEvent,
     pre |-> [handles |-> <<>>, current |-> None],
     exc |-> NoExc, log |-> <<>>, ret |-> <<>>]

Driver == [handles |-> handles, current |-> current, log |-> <<>>]

(* The driver after a call that left it as d. *)
Left(d) ==
    /\ handles' = d.handles
    /\ current' = d.current
    /\ page' = [h \in Range(d.handles) |-> page[h]]
    /\ js' = js

Init ==
    /\ \E h \in HandlePool, p \in Pages :
          /\ handles = <<h>>
          /\ current = h
          /\ page = [x \in {h} |-> p]
    /\ js \in BOOLEAN
    /\ call = NoCall

(* WindowManager.select(locator), while the window of ev closes.  call is
   what the caller gets: the exception raised, if any, with the driver calls
   made and the driver as it was before. *)
Select(locator, ev) ==
    /\ call = NoCall
    /\ \E r \in {select(Driver, locator, ev)} :
        /\ Left(r.d)
        /\ call' = [op |-> "select", locator |-> locator, ev |-> ev,
                    pre |-> [handles |-> handles, current |-> current],
                    exc |-> r.exc, log |-> r.d.log, ret |-> <<>>]

(* WindowManager.get_window_infos(), while the window of ev closes. *)
GetWindowInfos(ev) ==
    /\ call = NoCall
    /\ \E r \in {get_window_infos(Driver, ev)} :
        /\ Left(r.d)
        /\ call' = [op |-> "get_window_infos", locator |-> PyNone, ev |-> ev,
                    pre |-> [handles |-> handles, current |-> current],
                    exc |-> r.exc, log |-> r.d.log, ret |-> r.ret]

(* A page opens a window: the driver appends its handle to the list and the
   focus stays where it is.  The browser changes between two calls; what
   changes during a call is the call's ev. *)
OpenWindow(h, p) ==
    /\ call = NoCall
    /\ 1 <= Len(handles) /\ Len(handles) < MaxWindows
    /\ h \notin Range(handles)
    /\ handles' = Append(handles, h)
    /\ page' = [x \in Range(handles) \cup {h} |-> IF x = h THEN p ELSE page[x]]
    /\ UNCHANGED <<current, js, call>>

(* The user or a page closes a window between two calls. *)
CloseWindow(h) ==
    /\ call = NoCall
    /\ h \in Range(handles)
    /\ Left(CloseIn(Driver, h))
    /\ UNCHANGED call

(* The caller has taken the result of the call: WindowManager keeps nothing
   of a call, the next one sees the driver alone. *)
Return ==
    /\ call # NoCall
    /\ call' = NoCall
    /\ UNCHANGED <<handles, current, page, js>>

Next ==
    \/ \E locator \in Locators :
          \E ev \in (IF locator \in ScanLocators THEN Events(handles, current) ELSE {NoEvent}) :
             Select(locator, ev)
    \/ Return
    \/ \E ev \in Events(handles, current) : GetWindowInfos(ev)
    \/ \E h \in HandlePool, p \in Pages : OpenWindow(h, p)
    \/ \E h \in HandlePool : CloseWindow(h)

Spec == Init /\ [][Next]_vars
-----------------------------------------------------------------------------
(* What the properties speak of *)

(* The call that has just returned or raised. *)
Selected == call.op = "select"

Failed == Raised(call.exc)

(* The switch_to.window calls the call issued, in order. *)
Switches == SelectSeq(call.log, LAMBDA e : e.call = "switch_to.window")

(* The window_handles readings the call issued. *)
Listings == SelectSeq(call.log, LAMBDA e : e.call = "window_handles")

(* A select that scans the windows. *)
Scanned == Selected /\ IsScan(call.locator)

Last(hs) == hs[Len(hs)]

(* The window that had the focus before the call is still open. *)
StartSurvived == call.pre.current \in Range(handles)

(* What _get_current_window_info reports of window h: index 2 the name,
   3 the title, 4 the URL. *)
Reported(h, k) ==
    IF k = 2 THEN (IF js THEN OrUndefined(page[h].name) ELSE Undefined)
    ELSE IF k = 3 THEN OrUndefined(page[h].title)
    ELSE OrUndefined(page[h].url)

(* Trimmed and lowercased, as the matchers compare. *)
Folded(x) == Lower(Strip(x))

(* Window h is what the scanning locator asks for. *)
Asked(h, locator) ==
    LET parsed   == parse_locator(locator.val)
        criteria == parsed[2]
    IN  IF parsed[1] = <<"t","i","t","l","e">> THEN Folded(Reported(h, 3)) = Lower(criteria)
        ELSE IF parsed[1] = <<"n","a","m","e">> THEN Folded(Reported(h, 2)) = Lower(criteria)
        ELSE IF parsed[1] = <<"u","r","l">> THEN Folded(Reported(h, 4)) = Lower(criteria)
        ELSE \/ h = criteria
             \/ Folded(Reported(h, 2)) = Lower(criteria)
             \/ Folded(Reported(h, 3)) = Lower(criteria)

-----------------------------------------------------------------------------
(* C1: a scanning select (title, name, url, or the default with criteria)
   ends either without error and with a window the locator asks for active,
   or with an error and with the window active that was active before the
   call, whether or not a window was active before.  Stated for the calls
   during which the window that was active before did not close. *)
C1_ScanEndsOnMatchOrStart ==
    (Scanned /\ (call.pre.current = None \/ StartSurvived)) =>
        \/ ~Failed /\ current # None /\ Asked(current, call.locator)
        \/ Failed /\ current = call.pre.current

-----------------------------------------------------------------------------
(* C2 *)

(* The call was select('title=' + TitleArg). *)
TitleSelected ==
    /\ Selected
    /\ call.locator.type = "str"
    /\ Len(call.locator.val) >= 6
    /\ SubSeq(call.locator.val, 1, 6) = <<"t","i","t","l","e","=">>

TitleArg == SubSeq(call.locator.val, 7, Len(call.locator.val))

(* A quiet title selection: nothing closed during the call, there were
   windows and one of them was active. *)
QuietTitleSelected ==
    /\ TitleSelected
    /\ call.ev = NoEvent
    /\ Len(handles) >= 1
    /\ call.pre.current # None

(* C2 as claimed: with pairwise distinct titles, select('title=' + the exact
   title of window k) ends without error with k active; and
   select('title=' + t) for t the title of no window raises ValueError with t
   in the message and the window active that was active before. *)
C2_ExactTitleSelects ==
    QuietTitleSelected =>
        /\ (\A h, k \in Range(handles) : h # k => page[h].title # page[k].title)
              => \A k \in Range(handles) :
                    page[k].title = TitleArg => ~Failed /\ current = k
        /\ (\A k \in Range(handles) : page[k].title # TitleArg)
              => /\ call.exc.type = "ValueError"
                 /\ Contains(call.exc.msg, TitleArg)
                 /\ current = call.pre.current

(* C2 as amended: the titles are non-empty and pairwise distinct after
   trimming and lowercasing, and then the exact title of window k selects k;
   a t that no reported title equals after trimming and lowercasing (an empty
   title is reported as 'undefined') raises ValueError with the trimmed t in
   the message and the window active that was active before. *)
C2_FoldedTitleSelects ==
    QuietTitleSelected =>
        /\ ( /\ \A k \in Range(handles) : page[k].title # <<>>
             /\ \A h, k \in Range(handles) :
                   h # k => Folded(page[h].title) # Folded(page[k].title) )
              => \A k \in Range(handles) :
                    page[k].title = TitleArg => ~Failed /\ current = k
        /\ (\A k \in Range(handles) : Folded(Reported(k, 3)) # Folded(TitleArg))
              => /\ call.exc.type = "ValueError"
                 /\ Contains(call.exc.msg, Strip(TitleArg))
                 /\ current = call.pre.current

(* Two windows with titles that differ after folding, the first active, and
   the exact title of the second selected it. *)
C2_Witness ==
    /\ QuietTitleSelected
    /\ Len(handles) = 2
    /\ \A k \in Range(handles) : page[k].title # <<>>
    /\ Folded(page[handles[1]].title) # Folded(page[handles[2]].title)
    /\ call.pre.current = handles[1]
    /\ page[handles[2]].title = TitleArg
    /\ ~Failed
    /\ current = handles[2]

-----------------------------------------------------------------------------
(* C3 *)

Listed == call.op = "get_window_infos"

(* C3 as claimed: after get_window_infos the window is active that was
   active before, also when none was.  Stated for the calls during which the
   window that was active before did not close. *)
C3_InfosRestoresAlways ==
    (Listed /\ (call.pre.current = None \/ StartSurvived)) =>
        current = call.pre.current

(* C3 as amended: when a window was active before get_window_infos and is
   still open when the call ends, it is active again, whether the scan ran to
   its end or raised part-way; when no window was active before, nothing is
   restored and a scan that ran to its end leaves the last window of the list
   active. *)
C3_InfosRestoresKnownStart ==
    Listed =>
        /\ (call.pre.current # None /\ StartSurvived) => current = call.pre.current
        /\ (call.pre.current = None /\ ~Failed /\ handles # <<>>)
              => current = Last(handles)

(* The scan raised part-way, in the second window, and the first window is
   active as before. *)
C3_Witness ==
    /\ Listed
    /\ Len(call.pre.handles) = 2
    /\ call.pre.current = call.pre.handles[1]
    /\ call.exc = NoSuchWindowException
    /\ Len(Switches) = 3
    /\ current = call.pre.current

-----------------------------------------------------------------------------
(* C4: when the window the scan is about to switch to closes (a window other
   than the one that was active before the call), the scan skips it: no
   NoSuchWindowException leaves select. *)
C4_ClosedWindowIsSkipped ==
    ( /\ Scanned
      /\ call.ev.at > 0
      /\ call.ev.phase = "switch"
      /\ call.ev.h = call.pre.handles[call.ev.at]
      /\ call.ev.h # call.pre.current )
    => call.exc # NoSuchWindowException

-----------------------------------------------------------------------------
(* C5: when a scan whose starting window was known is left by an error of a
   driver call in the loop, the starting window (still open) is active
   again. *)
C5_RestoredWhenLoopRaises ==
    ( /\ Scanned
      /\ call.pre.current # None
      /\ StartSurvived
      /\ call.exc = NoSuchWindowException )
    => current = call.pre.current

-----------------------------------------------------------------------------
(* C6, C7 *)

NewSelected ==
    /\ Selected
    /\ call.locator.type = "str"
    /\ Lower(call.locator.val) \in {<<"n","e","w">>, <<"p","o","p","u","p">>}

(* C6: select 'new'/'popup' (any case) with the last handle of the list
   active raises the 'no new window' AssertionError, switches to nothing and
   leaves the active window as it was. *)
C6_NoNewWindow ==
    ( /\ NewSelected
      /\ call.pre.handles # <<>>
      /\ call.pre.current = Last(call.pre.handles) )
    => /\ call.exc = AssertionError(NoNewWindowMessage)
       /\ Switches = <<>>
       /\ current = call.pre.current
       /\ handles = call.pre.handles

(* 'NEW' or 'PopUp' with two windows open and the second one active. *)
C6_Witness ==
    /\ NewSelected
    /\ call.locator.val \in {<<"N","E","W">>, <<"P","o","p","U","p">>}
    /\ Len(call.pre.handles) = 2
    /\ call.pre.current = call.pre.handles[2]
    /\ Failed

(* C7: select 'new'/'popup' with a window active that is not the last of the
   non-empty list succeeds with exactly one switch, and the last handle of
   the list is active. *)
C7_NewWindowSelected ==
    ( /\ NewSelected
      /\ call.pre.handles # <<>>
      /\ call.pre.current # None
      /\ call.pre.current # Last(call.pre.handles) )
    => /\ ~Failed
       /\ Len(Switches) = 1
       /\ current = Last(call.pre.handles)

(* 'new' or 'popup' in some case with the first of several windows active. *)
C7_Witness ==
    /\ NewSelected
    /\ Len(call.pre.handles) >= 2
    /\ call.pre.current = call.pre.handles[1]
    /\ current = Last(call.pre.handles)
    /\ ~Failed

-----------------------------------------------------------------------------
(* C8 *)

ExcludesSelected == Selected /\ call.locator.type = "list"

(* The positions of the list whose handle is not excluded. *)
NotExcluded == {i \in 1..Len(call.pre.handles) : call.pre.handles[i] \notin call.locator.val}

(* C8: select with a list of handles raises ValueError 'Unable to locate new
   window' when every open handle is in the list, and otherwise succeeds with
   the first handle of the driver's list that is not in it active. *)
C8_FirstNotExcluded ==
    ExcludesSelected =>
        IF NotExcluded = {}
        THEN call.exc = ValueError(<<"U","n","a","b","l","e"," ","t","o"," ","l","o","c","a","t","e"," ","n","e","w"," ","w","i","n","d","o","w">>)
        ELSE /\ ~Failed
             /\ \E i \in NotExcluded :
                   /\ \A j \in NotExcluded : i <= j
                   /\ current = call.pre.handles[i]

(* Two windows, the first one excluded and active before, the second one
   active after. *)
C8_Witness ==
    /\ ExcludesSelected
    /\ Len(call.pre.handles) = 2
    /\ NotExcluded = {2}
    /\ call.pre.current = call.pre.handles[1]
    /\ current = call.pre.handles[2]

-----------------------------------------------------------------------------
(* C9 *)

(* The call was a select with a string that has a prefix (an '=') which is
   not title, name or url. *)
UnknownPrefixSelected ==
    /\ Selected
    /\ call.locator.type = "str"
    /\ \E i \in 1..Len(call.locator.val) : call.locator.val[i] = "="
    /\ Folded(Partition(call.locator.val, "=")[1]) \notin StrategyPrefixes

(* C9: select with a prefix other than title, name and url raises the
   ValueError that names the prefix, without a switch or a reading of the
   handle list, and leaves the active window as it was. *)
C9_UnknownPrefixFails ==
    UnknownPrefixSelected =>
        /\ call.exc = ValueError(<<"W","i","n","d","o","w"," ","l","o","c","a","t","o","r"," ","w","i","t","h"," ","p","r","e","f","i","x"," ","'">>
                \o Folded(Partition(call.locator.val, "=")[1])
                \o <<"'"," ","i","s"," ","n","o","t"," ","s","u","p","p","o","r","t","e","d">>)
        /\ Switches = <<>>
        /\ Listings = <<>>
        /\ current = call.pre.current

(* select(' FOO =x') with two windows open. *)
C9_Witness ==
    /\ UnknownPrefixSelected
    /\ call.locator.val = <<" ","F","O","O"," ","=","x">>
    /\ Len(call.pre.handles) = 2
    /\ Contains(call.exc.msg, <<"'","f","o","o","'">>)

-----------------------------------------------------------------------------
(* C10 *)

SelfSelected ==
    /\ Selected
    /\ call.locator.type = "str"
    /\ Lower(call.locator.val) \in {<<"s","e","l","f">>, <<"c","u","r","r","e","n","t">>}

(* C10: select 'self'/'current' (any case) returns without error and without
   a driver call; the active window and the handle list are as before, also
   with no window active or no window open. *)
C10_SelfIsNoOp ==
    SelfSelected =>
        /\ ~Failed
        /\ call.log = <<>>
        /\ current = call.pre.current
        /\ handles = call.pre.handles

(* 'SELF' or 'Current' while a window is open and none is active. *)
C10_Witness ==
    /\ SelfSelected
    /\ call.locator.val \in {<<"S","E","L","F">>, <<"C","u","r","r","e","n","t">>}
    /\ call.pre.current = None
    /\ call.pre.handles # <<>>
    /\ ~Failed
-----------------------------------------------------------------------------
(* C11 *)

(* The call was select(None), select(''), select('main') or
   select('name=main'), 'main' in any letter case. *)
MainSelected ==
    /\ Selected
    /\ \/ call.locator.type = "NoneType"
       \/ /\ call.locator.type = "str"
          /\ \/ call.locator.val = <<>>
             \/ Lower(call.locator.val) = <<"m","a","i","n">>
             \/ /\ Len(call.locator.val) = 9
                /\ SubSeq(call.locator.val, 1, 5) = <<"n","a","m","e","=">>
                /\ Lower(SubSeq(call.locator.val, 6, 9)) = <<"m","a","i","n">>

(* C11: select with None, '', 'main' or 'name=main' succeeds and leaves the
   first handle of the list active, whatever was active before and whatever
   the windows show.  Stated for a list that is not empty and a call during
   which nothing closes. *)
C11_MainSelectsFirst ==
    (MainSelected /\ call.ev = NoEvent /\ call.pre.handles # <<>>) =>
        /\ ~Failed
        /\ current = call.pre.handles[1]
-----------------------------------------------------------------------------
(* _parse_locator on its own: the locator is drawn from prefixes and
   criteria written in several ways, and the one step parses it. *)

ParsePrefixes ==
    { <<"t","i","t","l","e">>, <<" ","T","i","t","l","e"," ">>, <<"n","a","m","e">>, <<" ","N","A","M","E">>, <<"u","r","l">>, <<"U","r","l"," ">>, <<"f","o","o">>, <<>> }

ParseCriteria ==
    { <<>>, <<"m","a","i","n">>, <<"M","A","I","N">>, <<" ","M","a","i","n"," ">>, <<"m","a","i","n","l","y">>, <<"a">>, <<" ","a"," ","b"," ">>, <<"a","=","b">>,
      <<"=">>, <<"n","u","l","l">> }

ParseLocators ==
    {Str(p \o <<"=">> \o c) : p \in ParsePrefixes, c \in ParseCriteria}
    \cup {Str(c) : c \in ParseCriteria}
    \cup {PyNone}

ParseInit ==
    /\ handles = <<>>
    /\ current = None
    /\ page = <<>>
    /\ js = TRUE
    /\ \E locator \in ParseLocators : call = [NoCall EXCEPT !.locator = locator]

(* WindowManager._parse_locator(locator) *)
ParseLocator ==
    /\ call.op = ""
    /\ call' = [call EXCEPT !.op = "_parse_locator",
                            !.ret = parse_locator(call.locator.val)]
    /\ UNCHANGED <<handles, current, page, js>>

ParseNext == ParseLocator

ParseSpec == ParseInit /\ [][ParseNext]_vars

-----------------------------------------------------------------------------
(* C12, C13 *)

Parsed == call.op = "_parse_locator"

(* The locator is a string with an '='; EqAt is the place of the first. *)
HasEq ==
    /\ call.locator.type = "str"
    /\ \E k \in 1..Len(call.locator.val) : call.locator.val[k] = "="

EqAt ==
    CHOOSE k \in 1..Len(call.locator.val) :
        /\ call.locator.val[k] = "="
        /\ \A j \in 1..(k - 1) : call.locator.val[j] # "="

(* What is written before and after the first '='. *)
BeforeEq == SubSeq(call.locator.val, 1, EqAt - 1)

AfterEq == SubSeq(call.locator.val, EqAt + 1, Len(call.locator.val))

(* C12 as claimed: for a string prefix=criteria whose prefix, trimmed and
   lowercased, is title, name or url, _parse_locator returns
   (prefix.lower().strip(), criteria.strip()), split at the first '='. *)
C12_ParsesPrefixAndCriteria ==
    (Parsed /\ HasEq /\ Strip(Lower(BeforeEq)) \in StrategyPrefixes) =>
        call.ret = <<Strip(Lower(BeforeEq)), Strip(AfterEq)>>

(* C12 as amended: the same, except that under the prefix name a criteria
   that is 'main' in any letter case after trimming comes back as ''. *)
C12_ParsesPrefixAndCriteriaButMain ==
    (Parsed /\ HasEq /\ Strip(Lower(BeforeEq)) \in StrategyPrefixes) =>
        call.ret = <<Strip(Lower(BeforeEq)),
                     IF Strip(Lower(BeforeEq)) = <<"n","a","m","e">>
                        /\ Lower(Strip(AfterEq)) = <<"m","a","i","n">>
                     THEN <<>> ELSE Strip(AfterEq)>>

(* ' Title =a=b' parsed as ('title', 'a=b'). *)
C12_Witness ==
    /\ Parsed
    /\ HasEq
    /\ BeforeEq = <<" ","T","i","t","l","e"," ">>
    /\ AfterEq = <<"a","=","b">>
    /\ call.ret = <<<<"t","i","t","l","e">>, <<"a","=","b">>>>

(* C13: _parse_locator yields criteria '' when the criteria is None, empty
   or 'main' in any letter case and there is no prefix or the prefix is
   name; under title and url 'main' stays as written. *)
C13_MainIsEmptyCriteria ==
    Parsed =>
        /\ call.locator.type = "NoneType" => call.ret = <<None, <<>> >>
        /\ (call.locator.type = "str" /\ ~HasEq
              /\ (call.locator.val = <<>> \/ Lower(call.locator.val) = <<"m","a","i","n">>))
           => call.ret = <<None, <<>> >>
        /\ (HasEq /\ Strip(Lower(BeforeEq)) = <<"n","a","m","e">>
              /\ (Strip(AfterEq) = <<>> \/ Lower(Strip(AfterEq)) = <<"m","a","i","n">>))
           => call.ret = <<<<"n","a","m","e">>, <<>> >>
        /\ (HasEq /\ Strip(Lower(BeforeEq)) \in {<<"t","i","t","l","e">>, <<"u","r","l">>}
              /\ Lower(Strip(AfterEq)) = <<"m","a","i","n">>)
           => /\ call.ret[2] = Strip(AfterEq)
              /\ call.ret[2] # <<>>

(* ' NAME= Main ' parsed as ('name', ''). *)
C13_Witness ==
    /\ Parsed
    /\ HasEq
    /\ BeforeEq = <<" ","N","A","M","E">>
    /\ AfterEq = <<" ","M","a","i","n"," ">>
    /\ call.ret = <<<<"n","a","m","e">>, <<>> >>
-----------------------------------------------------------------------------
(* C14 *)

(* The id _get_current_window_info reports of window h. *)
ReportedId(h) == IF js /\ page[h].id # None THEN page[h].id ELSE Undefined

(* The driver calls that get_window_infos makes for the i-th handle begin
   after the two that precede the loop; there are five for every handle. *)
CallsBefore(i) == 2 + 5 * (i - 1)

(* C14: get_window_infos returns one WindowInfo for every handle of the
   list, in the order of the list: the i-th has the i-th handle and the id,
   name, title and URL of that window, read after the switch to it and before
   the next switch. *)
C14_InfosInListOrder ==
    (Listed /\ ~Failed) =>
        /\ handles = call.pre.handles
        /\ Len(call.ret) = Len(handles)
        /\ \A i \in 1..Len(handles) :
              /\ call.ret[i] = <<handles[i], ReportedId(handles[i]),
                                 Reported(handles[i], 2),
                                 Reported(handles[i], 3),
                                 Reported(handles[i], 4)>>
              /\ call.log[CallsBefore(i) + 1] =
                    [call |-> "switch_to.window", arg |-> handles[i]]
              /\ call.log[CallsBefore(i) + 2].call = "execute_script"
              /\ call.log[CallsBefore(i) + 3].call = "current_window_handle"
              /\ call.log[CallsBefore(i) + 4].call = "title"
              /\ call.log[CallsBefore(i) + 5].call = "current_url"

(* Two windows that show different things, the second one active: two
   snapshots came back, the first of the first window. *)
C14_Witness ==
    /\ Listed
    /\ ~Failed
    /\ Len(handles) = 2
    /\ page[handles[1]] # page[handles[2]]
    /\ call.pre.current = handles[2]
    /\ Len(call.ret) = 2
    /\ call.ret[1][1] = handles[1]
    /\ call.ret[2][4] = Reported(handles[2], 3)
-----------------------------------------------------------------------------
(* C15 *)

(* The call was select with a string without prefix whose criteria are not
   empty and not 'null': the scanning default strategy.  Nothing closed
   during the call. *)
DefaultScanned ==
    /\ call.ev = NoEvent
    /\ Scanned
    /\ parse_locator(call.locator.val)[1] = None

(* The places of the list whose window the criteria name: by its handle as
   written, or by its trimmed name or title in any letter case. *)
Qualifying ==
    {i \in 1..Len(handles) :
        \/ handles[i] = call.locator.val
        \/ Folded(Reported(handles[i], 2)) = Lower(call.locator.val)
        \/ Folded(Reported(handles[i], 3)) = Lower(call.locator.val)}

(* C15: the default strategy with criteria leaves the first handle of the
   list active that equals the criteria or whose trimmed name or title equals
   them in any letter case; the URL does not count; when there is none, the
   window active before is active again and the ValueError names handle,
   name, title and URL. *)
C15_DefaultSelectsFirstQualifying ==
    DefaultScanned =>
        IF Qualifying # {}
        THEN /\ ~Failed
             /\ \E i \in Qualifying :
                   /\ \A j \in Qualifying : i <= j
                   /\ current = handles[i]
        ELSE /\ call.exc = ValueError(
                    <<"U","n","a","b","l","e"," ","t","o"," ","l","o","c","a","t","e"," ","w","i","n","d","o","w"," ","w","i","t","h"," ","h","a","n","d","l","e"," ","o","r"," ","n","a","m","e"," ","o","r"," ","t","i","t","l","e"," ","o","r"," ","U","R","L"," ","'">>
                    \o call.locator.val \o <<"'">>)
             /\ call.pre.current # None => current = call.pre.current

(* The criteria are the URL of the second of two windows and name no window:
   the call failed and the first window is active as before. *)
C15_Witness ==
    /\ DefaultScanned
    /\ Len(handles) = 2
    /\ call.pre.current = handles[1]
    /\ Folded(Reported(handles[2], 4)) = Lower(call.locator.val)
    /\ Qualifying = {}
    /\ Failed
    /\ current = handles[1]
    /\ Len(Switches) = 3
-----------------------------------------------------------------------------
(* C16 *)

(* The call was select with prefix title, name or url, and nothing closed
   during the call. *)
PrefixScanned ==
    /\ call.ev = NoEvent
    /\ Scanned
    /\ parse_locator(call.locator.val)[1] \in StrategyPrefixes

(* The places of the list whose window satisfies the predicate. *)
Matching == {i \in 1..Len(handles) : Asked(handles[i], call.locator)}

(* C16: a title, name or url scan stops at the first match: the window of the
   lowest matching place of the list is active, and the switches of the call
   are those to the handles up to that place, one each, in list order. *)
C16_ScanStopsAtFirstMatch ==
    (PrefixScanned /\ Matching # {}) =>
        \E i \in Matching :
            /\ \A j \in Matching : i <= j
            /\ ~Failed
            /\ current = handles[i]
            /\ Len(Switches) = i
            /\ \A j \in 1..i : Switches[j].arg = handles[j]

(* Both of two windows satisfy the predicate and the second was active: the
   first is active after the only switch of the call. *)
C16_Witness ==
    /\ PrefixScanned
    /\ Len(handles) = 2
    /\ Matching = {1, 2}
    /\ call.pre.current = handles[2]
    /\ current = handles[1]
    /\ Len(Switches) = 1

-----------------------------------------------------------------------------
(* C17 *)

(* C17: select 'new'/'popup' with no window open raises the AssertionError
   'No window found'; with windows open and none active it raises the
   AssertionError 'Currently no focus window...'; neither call switches. *)
C17_NoWindowOrNoFocus ==
    NewSelected =>
        /\ call.pre.handles = <<>> =>
              /\ call.exc = AssertionError(<<"N","o"," ","w","i","n","d","o","w"," ","f","o","u","n","d">>)
              /\ Switches = <<>>
              /\ current = None
        /\ (call.pre.handles # <<>> /\ call.pre.current = None) =>
              /\ call.exc = AssertionError(
                    <<"C","u","r","r","e","n","t","l","y"," ","n","o"," ","f","o","c","u","s"," ","w","i","n","d","o","w","."," ","w","h","e","r","e"," ","a","r","e"," ","y","o","u"," ","m","a","k","i","n","g"," ","a"," ","p","o","p","u","p"," ","w","i","n","d","o","w","?">>)
              /\ Switches = <<>>
              /\ current = None

(* 'new' or 'popup' with a window open and none active. *)
C17_Witness ==
    /\ NewSelected
    /\ call.pre.handles # <<>>
    /\ call.pre.current = None
    /\ Failed
    /\ Switches = <<>>

(* 'new' or 'popup' with no window open. *)
C17_WitnessEmpty ==
    /\ NewSelected
    /\ call.pre.handles = <<>>
    /\ Failed

-----------------------------------------------------------------------------
(* C19 *)

(* C19: select with a list of handles switches at most once, and not at all
   when it fails: after the error the active window and the list are those
   from before the call. *)
C19_ExcludesSwitchesAtMostOnce ==
    ExcludesSelected =>
        /\ Len(Switches) <= 1
        /\ Failed => /\ Switches = <<>>
                     /\ current = call.pre.current
                     /\ handles = call.pre.handles

(* Two windows open, both excluded, the second active before and after the
   failed call. *)
C19_Witness ==
    /\ ExcludesSelected
    /\ Len(call.pre.handles) = 2
    /\ NotExcluded = {}
    /\ Failed
    /\ call.pre.current = call.pre.handles[2]
    /\ current = call.pre.handles[2]
    /\ Switches = <<>>
-----------------------------------------------------------------------------
(* C18 *)

(* The execute_script calls the call issued. *)
Scripts == SelectSeq(call.log, LAMBDA e : e.call = "execute_script")

(* What the title (k = 3) or the URL (k = 4) of window h reads, the scripts
   left aside. *)
Read(h, k) == OrUndefined(IF k = 3 THEN page[h].title ELSE page[h].url)

(* The places of the list whose title or URL, whichever the prefix names,
   equals the criteria after trimming and lowercasing. *)
MatchingRead ==
    LET parsed == parse_locator(call.locator.val)
        k      == IF parsed[1] = <<"t","i","t","l","e">> THEN 3 ELSE 4
    IN  {i \in 1..Len(handles) : Folded(Read(handles[i], k)) = Lower(parsed[2])}

(* C18: the exception of execute_script never leaves a call.  With a driver
   that cannot run scripts, get_window_infos returns an info for every
   handle with id and name 'undefined'; a title or url scan goes past the
   windows that do not match and selects the first that does; a name scan
   selects the first window when the criteria are 'undefined' in any letter
   case and fails with the ValueError of the name strategy for any other
   criteria, after it has read every window. *)
C18_ScriptFailureIsAbsorbed ==
    /\ (Failed /\ call.log # <<>>) =>
            call.log[Len(call.log)].call # "execute_script"
    /\ (~js /\ call.op # "") => call.exc # WebDriverException
    /\ (~js /\ Listed /\ ~Failed) =>
            /\ Len(call.ret) = Len(call.pre.handles)
            /\ \A i \in 1..Len(call.ret) :
                  /\ call.ret[i][2] = Undefined
                  /\ call.ret[i][3] = Undefined
                  /\ call.ret[i][4] = Read(handles[i], 3)
                  /\ call.ret[i][5] = Read(handles[i], 4)
    /\ (~js /\ PrefixScanned) =>
         LET parsed == parse_locator(call.locator.val)
         IN  IF parsed[1] \in {<<"t","i","t","l","e">>, <<"u","r","l">>}
             THEN MatchingRead # {} =>
                    \E i \in MatchingRead :
                        /\ \A j \in MatchingRead : i <= j
                        /\ ~Failed
                        /\ current = handles[i]
                        /\ Len(Scripts) = i
             ELSE IF Lower(parsed[2]) = Undefined
             THEN handles # <<>> => ~Failed /\ current = handles[1]
             ELSE /\ call.exc = ValueError(
                        <<"U","n","a","b","l","e"," ","t","o"," ","l","o","c","a","t","e"," ","w","i","n","d","o","w"," ","w","i","t","h"," ","n","a","m","e"," ","'">> \o parsed[2] \o <<"'">>)
                  /\ Len(Scripts) = Len(handles)

(* The driver cannot run scripts; a url scan went past the first of two
   windows and selected the second. *)
C18_Witness ==
    /\ ~js
    /\ PrefixScanned
    /\ parse_locator(call.locator.val)[1] = <<"u","r","l">>
    /\ Len(handles) = 2
    /\ MatchingRead = {2}
    /\ call.pre.current = handles[1]
    /\ current = handles[2]
    /\ Len(Scripts) = 2
    /\ ~Failed

(* The driver cannot run scripts; the criteria of a name scan are the
   window.name of an open window, and the scan failed. *)
C18_WitnessName ==
    /\ ~js
    /\ PrefixScanned
    /\ parse_locator(call.locator.val)[1] = <<"n","a","m","e">>
    /\ \E h \in Range(handles) :
          Folded(page[h].name) = Lower(parse_locator(call.locator.val)[2])
    /\ Failed

=============================================================================
